---- MODULE Spec2Model ----
(***************************************************************************)
(* socket.io-pubsub: the PubsubAdapter of src/lib/index.js as a state      *)
(* machine.  Three adapter instances share one Pub/Sub topic (the prefix). *)
(* Every callback of the code is one action: the bus answers (createTopic, *)
(* topic.subscribe, subscription.delete, topic.publish), the poll timer of *)
(* waitForInitialization, the process.nextTick continuation of the base    *)
(* Adapter's membership calls, and the 'message' listener.                 *)
(*                                                                         *)
(* Strings are sequences of characters, so that channel concatenation and  *)
(* String.prototype.startsWith are computed and not assumed.  A value that *)
(* may be undefined is a sequence of length 0 (undefined) or 1 (the value).*)
(***************************************************************************)
EXTENDS Integers, Sequences, FiniteSets, TLC

\* ------------------------------------------------------------------ bounds
\* calls of the servers (addAll, del, delAll, broadcast) and messages the bus
\* delivers, in one run of the whole system
MaxOps == 2
\* membership calls (addAll, del, delAll) in one run of one instance alone
MaxCalls == 5
\* broadcasts of one server and deliveries to the other, in one run of a relay
MaxRelay == 3

\* --------------------------------------------------------------- optionals
None == << >>

Some(v) == <<v>>

IsDef(o) == Len(o) = 1

Val(o) == o[1]

\* ------------------------------------------------------------------ strings
Hash == <<"#">>

\* opts.key || 'socket.io'
prefix == <<"s", "o", "c", "k", "e", "t", ".", "i", "o">>

\* String.prototype.startsWith
startsWith(s, p) == Len(p) <= Len(s) /\ SubSeq(s, 1, Len(p)) = p

\* (a bug: the channels compared for equality)
channelMatchesExact(messageChannel, subscribedChannel) ==
    messageChannel = subscribedChannel

channelMatches(messageChannel, subscribedChannel) ==
    startsWith(messageChannel, subscribedChannel)

\* --------------------------------------------------------------- instances
\* A and B: two servers on the root namespace.  C: the adapter of namespace
\* /a made by the same factory call as B, so it shares B's uid.
Inst == {"A", "B", "C"}

uid == [i \in Inst |-> IF i = "A" THEN "socket.io-1" ELSE "socket.io-2"]

nspName == [i \in Inst |-> IF i = "C" THEN <<"/", "a">> ELSE <<"/">>]

\* this.channel = prefix + '#' + nsp.name + '#'
channel(i) == prefix \o Hash \o nspName[i] \o Hash

Clients == {"c1"}

Rooms == {<<"x">>, <<"y">>}

\* the error codes a bus answer carries in the model: 409 conflict, 404 not
\* found, 500 any other failure
Conflict == 409

NotFound == 404

Failure == 500

VARIABLES
    initializing,   \* this.initializing (undefined is FALSE)
    deleting,       \* this.deleting (undefined is FALSE)
    topics,         \* this.topics[prefix]: None or Some(topic handle)
    subscriptions,  \* this.subscriptions[prefix]: 0 (absent) or a handle's index
    handles,        \* the subscription objects made so far: "open" | "closed"
    rooms,          \* this.rooms of the base Adapter: room -> set of socket ids
    refRooms,       \* the base Adapter alone, given the same calls in issue order
    edges,          \* how often this.rooms went from empty to not empty, and back
    waiting,        \* continuations parked in waitForInitialization's poll
    ticks,          \* process.nextTick queue: the last step of each waterfall
    createReqs,     \* subscribe() calls whose bus answer is outstanding
    delReqs,        \* subscription.delete() calls whose answer is outstanding
    outbox,         \* every topic.publish() call, in order
    pubReqs,        \* topic.publish() calls whose answer is outstanding
    originated,     \* broadcast(packet, opts) calls, per instance and packet
    applied,        \* broadcast(packet, opts, true) calls, per instance and packet
    acks,           \* msg.ack() calls, per instance and packet
    errors,         \* emit('error', err): the operations that emitted
    threw,          \* handlers that ended in a TypeError
    creates,        \* subscribe() calls so far, per instance
    deletes,        \* subscription.delete() calls so far, per instance
    calls,          \* membership calls issued so far
    nbcast,         \* non-remote broadcasts issued so far
    ndeliver,       \* messages delivered so far
    last,           \* the handler that ran last, its input and what it did
    limit           \* how many calls and deliveries the run may hold

vars == <<initializing, deleting, topics, subscriptions, handles, rooms, refRooms,
          waiting, ticks, createReqs, delReqs, outbox, originated, applied, acks,
          errors, threw, creates, deletes, calls, nbcast, ndeliver, last, pubReqs,
          limit, edges>>

\* packet ids: 0 for another publisher's packet, then one per broadcast
Pids == 0 .. (IF MaxOps > MaxRelay THEN MaxOps ELSE MaxRelay)

\* the servers' calls and the bus's deliveries so far
ops == calls + nbcast + ndeliver

NoRooms == [r \in Rooms |-> {}]

\* ---------------------------------------------------------------- the bus
\* pubsub.topic(name): a handle on the topic of that name
pubsubTopic(name) == [name |-> name]

\* what pubsub.createTopic(name, cb) may pass to cb: (null, topic),
\* (conflict) or (another error)
CreateTopicAnswers(name) ==
    {[err |-> None, topic |-> Some(pubsubTopic(name))],
     [err |-> Some(Conflict), topic |-> None],
     [err |-> Some(Failure), topic |-> None]}

\* what topic.subscribe(name, config, cb) may pass to cb
SubscribeAnswers == {None, Some(Failure)}

\* what subscription.delete(cb) may pass to cb
DeleteAnswers == {None, Some(NotFound), Some(Failure)}

\* what topic.publish(message, cb) may pass to cb
PublishAnswers == {None, Some(Failure)}

\* ------------------------------------------------------------ construction
\* function PubsubAdapter(nsp): the fields, then this.subscribe(this.prefix),
\* which sets initializing and sends createTopic before it returns.
Constructed ==
    /\ initializing = [i \in Inst |-> TRUE]
    /\ deleting = [i \in Inst |-> FALSE]
    /\ topics = [i \in Inst |-> None]
    /\ subscriptions = [i \in Inst |-> 0]
    /\ handles = [i \in Inst |-> << >>]
    /\ rooms = [i \in Inst |-> NoRooms]
    /\ refRooms = [i \in Inst |-> NoRooms]
    /\ edges = [i \in Inst |-> [fills |-> 0, empties |-> 0]]
    /\ waiting = {}
    /\ ticks = [i \in Inst |-> << >>]
    /\ createReqs = {[inst |-> i, n |-> 1, stage |-> "topic"] : i \in Inst}
    /\ delReqs = {}
    /\ outbox = << >>
    /\ pubReqs = [i \in Inst |-> 0]
    /\ originated = [i \in Inst |-> [p \in Pids |-> 0]]
    /\ applied = [i \in Inst |-> [p \in Pids |-> 0]]
    /\ acks = [i \in Inst |-> [p \in Pids |-> 0]]
    /\ errors = [i \in Inst |-> {}]
    /\ threw = [i \in Inst |-> {}]
    /\ creates = [i \in Inst |-> 1]
    /\ deletes = [i \in Inst |-> 0]
    /\ calls = 0
    /\ nbcast = 0
    /\ ndeliver = 0
    /\ last = [op |-> "constructor"]

Init == Constructed /\ limit = MaxOps

InitAlone == Constructed /\ limit = MaxCalls

InitRelay == Constructed /\ limit = MaxRelay

\* ---------------------------------------------------------------- getTopic
\* (a bug: the conflict is passed on like any other error)
getTopicPassing(answer, name) == answer

\* getTopic's callback arguments (err, topic) from createTopic's answer
getTopic(answer, name) ==
    IF IsDef(answer.err) /\ Val(answer.err) = Conflict
    THEN [err |-> None, topic |-> Some(pubsubTopic(name))]
    ELSE answer

\* --------------------------------------------------------------- subscribe
\* PubsubAdapter.prototype.subscribe up to its first asynchronous call: the
\* values of initializing, creates and createReqs after it
subscribeStart(i) ==
    [initializing |-> [initializing EXCEPT ![i] = TRUE],
     creates |-> [creates EXCEPT ![i] = @ + 1],
     createReqs |-> createReqs \cup
                    {[inst |-> i, n |-> creates[i] + 1, stage |-> "topic"]}]

\* createTopic answers: getTopic, then the waterfall's second task stores
\* the topic and getSubscription sends topic.subscribe; on an error the
\* waterfall's final callback emits it.
TopicCallback(i) ==
    \E r \in createReqs : \E answer \in CreateTopicAnswers(prefix) :
        /\ r.inst = i /\ r.stage = "topic"
        /\ ticks[i] = << >>
        /\ LET got == getTopic(answer, prefix) IN
           IF IsDef(got.err)
           THEN /\ errors' = [errors EXCEPT ![i] = @ \cup {"subscribe"}]
                /\ createReqs' = createReqs \ {r}
                /\ UNCHANGED topics
           ELSE /\ topics' = [topics EXCEPT ![i] = got.topic]
                /\ createReqs' = (createReqs \ {r}) \cup {[r EXCEPT !.stage = "sub"]}
                /\ UNCHANGED errors
        /\ last' = [op |-> "createTopic", inst |-> i, err |-> answer.err]
        /\ UNCHANGED <<edges, pubReqs, limit, initializing, deleting, subscriptions, handles, rooms, refRooms,
                       waiting, ticks, delReqs, outbox, originated, applied, acks,
                       threw, creates, deletes, calls, nbcast, ndeliver>>

\* topic.subscribe answers: the waterfall's final callback
SubscribeCallback(i) ==
    \E r \in createReqs : \E err \in SubscribeAnswers :
        /\ r.inst = i /\ r.stage = "sub"
        /\ ticks[i] = << >>
        /\ IF IsDef(err)
           THEN /\ errors' = [errors EXCEPT ![i] = @ \cup {"subscribe"}]
                /\ UNCHANGED <<subscriptions, handles, deleting, initializing>>
           ELSE /\ handles' = [handles EXCEPT ![i] = Append(@, "open")]
                /\ subscriptions' = [subscriptions EXCEPT ![i] = Len(handles[i]) + 1]
                /\ deleting' = [deleting EXCEPT ![i] = FALSE]
                /\ initializing' = [initializing EXCEPT ![i] = FALSE]
                /\ UNCHANGED errors
        /\ createReqs' = createReqs \ {r}
        /\ last' = [op |-> "subscribed", inst |-> i]
        /\ UNCHANGED <<edges, pubReqs, limit, topics, rooms, refRooms, waiting, ticks, delReqs, outbox,
                       originated, applied, acks, threw, creates, deletes, calls,
                       nbcast, ndeliver>>

\* ------------------------------------------------- the base Adapter (rooms)
\* Adapter.prototype.addAll, del and delAll of socket.io-adapter on this.rooms;
\* a room that loses its last socket is deleted from the mapping, so a room
\* is a key of this.rooms exactly when its set is not empty.
baseAddAll(rm, id, list) ==
    [r \in Rooms |-> IF \E k \in 1 .. Len(list) : list[k] = r
                     THEN rm[r] \cup {id} ELSE rm[r]]

baseDel(rm, id, room) == [r \in Rooms |-> IF r = room THEN rm[r] \ {id} ELSE rm[r]]

baseDelAll(rm, id) == [r \in Rooms |-> rm[r] \ {id}]

applyBase(rm, o) ==
    CASE o.op = "addAll" -> baseAddAll(rm, o.client, o.rms)
      [] o.op = "del" -> baseDel(rm, o.client, o.rms[1])
      [] o.op = "delAll" -> baseDelAll(rm, o.client)
      [] OTHER -> rm

\* Object.keys(this.rooms || {}).length
roomCount(rm) == Cardinality({r \in Rooms : rm[r] # {}})

\* the count of the mapping's changes between empty and not empty, after the
\* base Adapter's call o on rm
afterEdge(e, rm, o) ==
    LET before == roomCount(rm)
        after == roomCount(applyBase(rm, o))
    IN [fills |-> e.fills + (IF before = 0 /\ after > 0 THEN 1 ELSE 0),
        empties |-> e.empties + (IF before > 0 /\ after = 0 THEN 1 ELSE 0)]

\* ------------------------------------------------------ calls and packets
NoPacket == [id |-> 0, nsp |-> None]

NoOpts == [rooms |-> None]

\* the membership calls the model issues: a socket joins rooms x and y,
\* leaves x, leaves every room
MemberCalls ==
    {[op |-> "addAll", client |-> c, rms |-> <<(<<"x">>), (<<"y">>)>>] : c \in Clients}
    \cup {[op |-> "del", client |-> c, rms |-> <<(<<"x">>)>>] : c \in Clients}
    \cup {[op |-> "delAll", client |-> c, rms |-> << >>] : c \in Clients}

\* opts.rooms of the broadcasts the model issues: undefined, [], one room,
\* two rooms
RoomLists == {None, Some(<< >>), Some(<<(<<"x">>)>>), Some(<<(<<"x">>), (<<"y">>)>>)}

\* a continuation: a membership call or a broadcast's publish step
\* (parked: waitForInitialization found initializing set and armed its timer)
Cont(i, op, n, client, rms, packet, opts, remote) ==
    [inst |-> i, op |-> op, n |-> n, client |-> client, rms |-> rms,
     packet |-> packet, opts |-> opts, remote |-> remote, parked |-> FALSE]

park(o) == [o EXCEPT !.parked = TRUE]

\* ------------------------------------------------------------- publishing
\* the message publish() hands to topic.publish: Object.assign({}, message,
\* { channel }); from is the model's record of the caller
envelope(i, chn, packet, opts) ==
    [senderId |-> uid[i], packet |-> Some(packet), opts |-> opts,
     channel |-> Some(chn), from |-> i]

\* the namespace part of the channel: packet.nsp, or the text 'undefined'
nspText(packet) ==
    IF IsDef(packet.nsp) THEN Val(packet.nsp)
    ELSE <<"u", "n", "d", "e", "f", "i", "n", "e", "d">>

\* (a bug: the namespace channel is published to as well as the rooms')
publishChannelsAndBare(packet, opts) ==
    LET chn == prefix \o Hash \o nspText(packet) \o Hash IN
    IF IsDef(opts.rooms) /\ Len(Val(opts.rooms)) > 0
    THEN [k \in 1 .. Len(Val(opts.rooms)) |-> chn \o Val(opts.rooms)[k] \o Hash]
         \o <<chn>>
    ELSE <<chn>>

\* the channels broadcast's callback publishes to, in order
publishChannels(packet, opts) ==
    LET chn == prefix \o Hash \o nspText(packet) \o Hash IN
    IF IsDef(opts.rooms) /\ Len(Val(opts.rooms)) > 0
    THEN [k \in 1 .. Len(Val(opts.rooms)) |-> chn \o Val(opts.rooms)[k] \o Hash]
    ELSE <<chn>>

\* (a bug: the remote flag is not looked at)
publishAllAlways(i, packet, opts, remote) ==
    LET chs == publishChannels(packet, opts) IN
    [k \in 1 .. Len(chs) |-> envelope(i, chs[k], packet, opts)]

\* the callback broadcast gives to waitForInitialization: the envelopes it
\* publishes (none for a remote broadcast)
publishAll(i, packet, opts, remote) ==
    IF remote THEN << >>
    ELSE LET chs == publishChannels(packet, opts) IN
         [k \in 1 .. Len(chs) |-> envelope(i, chs[k], packet, opts)]

\* the state after that callback ran: this.topics[topic].publish throws a
\* TypeError when the topic was never stored
afterPublish(i, packet, opts, remote) ==
    LET es == publishAll(i, packet, opts, remote) IN
    IF es # << >> /\ ~IsDef(topics[i])
    THEN [outbox |-> outbox, pubReqs |-> pubReqs,
          threw |-> [threw EXCEPT ![i] = @ \cup {"publish"}]]
    ELSE [outbox |-> outbox \o es, pubReqs |-> [pubReqs EXCEPT ![i] = @ + Len(es)],
          threw |-> threw]

\* topic.publish answers: an error is emitted
PublishCallback(i) ==
    \E err \in PublishAnswers :
        /\ pubReqs[i] > 0
        /\ ticks[i] = << >>
        /\ pubReqs' = [pubReqs EXCEPT ![i] = @ - 1]
        /\ errors' = [errors EXCEPT ![i] = IF IsDef(err) THEN @ \cup {"publish"} ELSE @]
        /\ last' = [op |-> "published", inst |-> i]
        /\ UNCHANGED <<edges, initializing, deleting, topics, subscriptions, handles, rooms,
                       refRooms, waiting, ticks, createReqs, delReqs, outbox, originated,
                       applied, acks, threw, creates, deletes, calls, nbcast, ndeliver,
                       limit>>

\* PubsubAdapter.prototype.broadcast(packet, opts) called by the server: the
\* base broadcast sets packet.nsp and sends to the local sockets, then
\* waitForInitialization runs the callback at once or parks it
Broadcast(i) ==
    \E rl \in RoomLists :
        /\ ops < limit
        /\ LET packet == [id |-> nbcast + 1, nsp |-> Some(nspName[i])]
               opts == [rooms |-> rl]
               o == Cont(i, "broadcast", nbcast + 1, "", << >>, packet, opts, FALSE)
           IN
           /\ originated' = [originated EXCEPT ![i][packet.id] = @ + 1]
           /\ IF initializing[i]
              THEN /\ waiting' = waiting \cup {park(o)}
                   /\ UNCHANGED <<outbox, pubReqs, threw>>
              ELSE /\ outbox' = afterPublish(i, packet, opts, FALSE).outbox
                   /\ pubReqs' = afterPublish(i, packet, opts, FALSE).pubReqs
                   /\ threw' = afterPublish(i, packet, opts, FALSE).threw
                   /\ UNCHANGED waiting
           /\ last' = [op |-> "broadcast", inst |-> i]
        /\ nbcast' = nbcast + 1
        /\ UNCHANGED <<edges, limit, initializing, deleting, topics, subscriptions, handles, rooms,
                       refRooms, ticks, createReqs, delReqs, applied, acks, errors,
                       creates, deletes, calls, ndeliver>>

\* ------------------------------------------------------ membership calls
\* addAll, del, delAll called by the server: waitForInitialization parks the
\* waterfall while initializing is set; otherwise the base Adapter's call runs
\* at once and answers through process.nextTick
Call(i) ==
    \E c \in MemberCalls :
        /\ ops < limit
        /\ LET o == Cont(i, c.op, calls + 1, c.client, c.rms, NoPacket, NoOpts, FALSE) IN
           /\ refRooms' = [refRooms EXCEPT ![i] = applyBase(@, o)]
           /\ IF initializing[i]
              THEN /\ waiting' = waiting \cup {park(o)}
                   /\ UNCHANGED <<rooms, edges, ticks>>
              ELSE /\ rooms' = [rooms EXCEPT ![i] = applyBase(@, o)]
                   /\ edges' = [edges EXCEPT ![i] = afterEdge(@, rooms[i], o)]
                   /\ ticks' = [ticks EXCEPT ![i] = Append(@, o)]
                   /\ UNCHANGED waiting
           /\ last' = [op |-> "call", inst |-> i]
        /\ calls' = calls + 1
        /\ UNCHANGED <<pubReqs, limit, initializing, deleting, topics, subscriptions, handles,
                       createReqs, delReqs, outbox, originated, applied, acks, errors,
                       threw, creates, deletes, nbcast, ndeliver>>

\* waitForInitialization's timer finds initializing clear and calls back: a
\* parked membership call runs the base Adapter's call, a parked broadcast
\* publishes.  (A timer that finds the flag set only re-arms itself.)
Wake(i) ==
    \E o \in waiting :
        /\ o.inst = i
        /\ ~initializing[i]
        /\ ticks[i] = << >>
        /\ waiting' = waiting \ {o}
        /\ IF o.op = "broadcast"
           THEN /\ outbox' = afterPublish(i, o.packet, o.opts, o.remote).outbox
                /\ pubReqs' = afterPublish(i, o.packet, o.opts, o.remote).pubReqs
                /\ threw' = afterPublish(i, o.packet, o.opts, o.remote).threw
                /\ UNCHANGED <<rooms, edges, ticks>>
           ELSE /\ rooms' = [rooms EXCEPT ![i] = applyBase(@, o)]
                /\ edges' = [edges EXCEPT ![i] = afterEdge(@, rooms[i], o)]
                /\ ticks' = [ticks EXCEPT ![i] = Append(@, o)]
                /\ UNCHANGED <<outbox, pubReqs, threw>>
        /\ last' = [op |-> "wake", inst |-> i]
        /\ UNCHANGED <<limit, initializing, deleting, topics, subscriptions, handles, refRooms,
                       createReqs, delReqs, originated, applied, acks, errors, creates,
                       deletes, calls, nbcast, ndeliver>>

\* what lazyDeleteSubscription does: "none" (rooms left or deleting set),
\* "delete" (subscription.delete is called) or "throw" (this.subscriptions
\* holds no subscription to call delete on)
lazyDeleteSubscription(i) ==
    IF roomCount(rooms[i]) = 0 /\ ~deleting[i]
    THEN IF subscriptions[i] = 0 THEN "throw" ELSE "delete"
    ELSE "none"

\* the last task of addAll's waterfall: "subscribe" or "none"
addAllLast(i) == IF subscriptions[i] = 0 THEN "subscribe" ELSE "none"

\* process.nextTick: the base Adapter's callback, i.e. the waterfall's last
\* task: addAll subscribes when no subscription is held; del and delAll run
\* lazyDeleteSubscription
Tick(i) ==
    /\ ticks[i] # << >>
    /\ LET o == Head(ticks[i])
           did == IF o.op = "addAll" THEN addAllLast(i) ELSE lazyDeleteSubscription(i)
       IN
       /\ ticks' = [ticks EXCEPT ![i] = Tail(@)]
       /\ initializing' = IF did = "subscribe" THEN subscribeStart(i).initializing
                          ELSE initializing
       /\ creates' = IF did = "subscribe" THEN subscribeStart(i).creates ELSE creates
       /\ createReqs' = IF did = "subscribe" THEN subscribeStart(i).createReqs
                        ELSE createReqs
       /\ deleting' = IF did \in {"delete", "throw"}
                      THEN [deleting EXCEPT ![i] = TRUE] ELSE deleting
       /\ deletes' = IF did = "delete" THEN [deletes EXCEPT ![i] = @ + 1] ELSE deletes
       /\ delReqs' = IF did = "delete"
                     THEN delReqs \cup {[inst |-> i, h |-> subscriptions[i]]}
                     ELSE delReqs
       /\ threw' = IF did = "throw"
                   THEN [threw EXCEPT ![i] = @ \cup {"lazyDeleteSubscription"}]
                   ELSE threw
       /\ last' = [op |-> "tick", inst |-> i, did |-> did]
    /\ UNCHANGED <<edges, pubReqs, limit, topics, subscriptions, handles, rooms, refRooms, waiting, outbox,
                   originated, applied, acks, errors, calls, nbcast, ndeliver>>

\* subscription.delete answers: an error other than 404 is emitted and the
\* handle kept; otherwise this.subscriptions[prefix] is deleted.  The bus
\* closes the subscription object when the deletion succeeded.
DeleteCallback(i) ==
    \E rq \in delReqs : \E err \in DeleteAnswers :
        /\ rq.inst = i
        /\ ticks[i] = << >>
        /\ delReqs' = delReqs \ {rq}
        /\ handles' = IF IsDef(err) THEN handles
                      ELSE [handles EXCEPT ![i][rq.h] = "closed"]
        /\ IF IsDef(err) /\ Val(err) # NotFound
           THEN /\ errors' = [errors EXCEPT ![i] = @ \cup {"delete"}]
                /\ UNCHANGED subscriptions
           ELSE /\ subscriptions' = [subscriptions EXCEPT ![i] = 0]
                /\ UNCHANGED errors
        /\ last' = [op |-> "deleted", inst |-> i]
        /\ UNCHANGED <<edges, pubReqs, limit, initializing, deleting, topics, rooms, refRooms, waiting, ticks,
                       createReqs, outbox, originated, applied, acks, threw, creates,
                       deletes, calls, nbcast, ndeliver>>

\* ------------------------------------------------------------- delivery
\* messages other publishers put on the shared topic (the topic is not the
\* adapters' alone): no channel; no packet; a packet without nsp on the root
\* channel; a packet of namespace /a on a channel the root channel prefixes;
\* a packet without nsp on the channel of /a
rootChannel == prefix \o Hash \o <<"/">> \o Hash

ExtEnvelopes ==
    {[senderId |-> "emitter", packet |-> Some([id |-> 0, nsp |-> Some(<<"/">>)]),
      opts |-> NoOpts, channel |-> None, from |-> "ext"],
     [senderId |-> "emitter", packet |-> None,
      opts |-> NoOpts, channel |-> Some(rootChannel), from |-> "ext"],
     [senderId |-> "emitter", packet |-> Some([id |-> 0, nsp |-> None]),
      opts |-> NoOpts, channel |-> Some(rootChannel), from |-> "ext"],
     [senderId |-> "emitter", packet |-> Some([id |-> 0, nsp |-> Some(<<"/", "a">>)]),
      opts |-> NoOpts, channel |-> Some(rootChannel \o <<"a", "#">>),
      from |-> "ext"],
     [senderId |-> "emitter", packet |-> Some([id |-> 0, nsp |-> None]),
      opts |-> NoOpts, channel |-> Some(prefix \o Hash \o <<"/", "a">> \o Hash),
      from |-> "ext"]}

\* what the bus may hand to a listener: a message an adapter published, or
\* another publisher's
Deliverable == {outbox[k] : k \in 1 .. Len(outbox)} \cup ExtEnvelopes

\* (a bug: the sender is not compared)
sameUidNever(i, data) == FALSE

\* this.uid === data.senderId
sameUid(i, data) == uid[i] = data.senderId

\* if (packet && packet.nsp === undefined) packet.nsp = '/'
packetNsp(packet) == IF IsDef(packet.nsp) THEN Val(packet.nsp) ELSE <<"/">>

\* (a bug: the namespace is not compared)
differentNamespaceNever(i, data) == FALSE

\* !packet || packet.nsp !== this.nsp.name
differentNamespace(i, data) ==
    ~IsDef(data.packet) \/ packetNsp(Val(data.packet)) # nspName[i]

\* (a bug: subscription.closed is not looked at)
onmessageWhenClosed(i, h, data) ==
    IF ~IsDef(data.channel) THEN "throw"
    ELSE IF ~channelMatches(Val(data.channel), channel(i)) THEN "channel"
    ELSE IF sameUid(i, data) THEN "uid"
    ELSE IF differentNamespace(i, data) THEN "namespace"
    ELSE "accept"

\* onmessage's path for message data arriving on subscription object h:
\* "closed", "throw" (channel is undefined: startsWith of undefined),
\* "channel", "uid", "namespace" (the four returns) or "accept"
onmessage(i, h, data) ==
    IF handles[i][h] = "closed" THEN "closed"
    ELSE IF ~IsDef(data.channel) THEN "throw"
    ELSE IF ~channelMatches(Val(data.channel), channel(i)) THEN "channel"
    ELSE IF sameUid(i, data) THEN "uid"
    ELSE IF differentNamespace(i, data) THEN "namespace"
    ELSE "accept"

\* what onmessage calls, in order, on each path
effects(path) == IF path = "accept" THEN <<"broadcast", "ack">> ELSE << >>

count(seq, x) == Cardinality({k \in 1 .. Len(seq) : seq[k] = x})

\* the 'message' listener bound to subscription object h of instance i.  An
\* accepted packet goes to this.broadcast(packet, data.opts, true): the base
\* broadcast, then waitForInitialization, whose callback publishes nothing
\* for a remote broadcast; then msg.ack().
Deliver(i) ==
    \E h \in 1 .. Len(handles[i]) : \E data \in Deliverable :
        /\ ops < limit
        /\ ticks[i] = << >>
        /\ LET path == onmessage(i, h, data)
               did == effects(path)
               pid == IF IsDef(data.packet) THEN Val(data.packet).id ELSE 0
               packet == IF IsDef(data.packet)
                         THEN [id |-> pid, nsp |-> Some(nspName[i])] ELSE NoPacket
               o == Cont(i, "broadcast", ndeliver + 1, "", << >>, packet, data.opts, TRUE)
               sync == count(did, "broadcast") > 0 /\ ~initializing[i]
               after == afterPublish(i, packet, data.opts, TRUE)
           IN
           /\ applied' = [applied EXCEPT ![i][pid] = @ + count(did, "broadcast")]
           /\ acks' = [acks EXCEPT ![i][pid] = @ + count(did, "ack")]
           /\ waiting' = IF count(did, "broadcast") > 0 /\ initializing[i]
                         THEN waiting \cup {park(o)} ELSE waiting
           /\ outbox' = IF sync THEN after.outbox ELSE outbox
           /\ pubReqs' = IF sync THEN after.pubReqs ELSE pubReqs
           /\ threw' = IF path = "throw"
                       THEN [threw EXCEPT ![i] = @ \cup {"onmessage"}]
                       ELSE IF sync THEN after.threw ELSE threw
           /\ last' = [op |-> "onmessage", inst |-> i, h |-> h, data |-> data,
                       path |-> path, did |-> did]
        /\ ndeliver' = ndeliver + 1
        /\ UNCHANGED <<limit, initializing, deleting, topics, subscriptions, handles, rooms,
                       refRooms, edges, ticks, createReqs, delReqs, originated, errors,
                       creates, deletes, calls, nbcast>>

\* ------------------------------------------------------------ specification
\* every handler of the instances of S
NextOf(S) ==
    \E i \in S :
        \/ TopicCallback(i)
        \/ SubscribeCallback(i)
        \/ PublishCallback(i)
        \/ Broadcast(i)
        \/ Call(i)
        \/ Wake(i)
        \/ Tick(i)
        \/ DeleteCallback(i)
        \/ Deliver(i)

\* two servers on the root namespace; C's process takes no step
Next == NextOf({"A", "B"})

Spec == Init /\ [][Next]_vars

\* the two namespaces of one server (/ and /a, one uid); A's process takes no
\* step
NextSiblings == NextOf({"B", "C"})

SpecSiblings == Init /\ [][NextSiblings]_vars

\* one instance's subscription and membership over a longer run: the
\* server issues membership calls only and the bus delivers nothing
NextAlone ==
    \E i \in {"A"} :
        \/ TopicCallback(i)
        \/ SubscribeCallback(i)
        \/ Call(i)
        \/ Wake(i)
        \/ Tick(i)
        \/ DeleteCallback(i)

SpecAlone == InitAlone /\ [][NextAlone]_vars

\* a relay over a longer run: B's server broadcasts, the bus delivers to A
NextRelay ==
    \/ \E i \in {"A", "B"} : TopicCallback(i) \/ SubscribeCallback(i)
    \/ Broadcast("B")
    \/ Wake("B")
    \/ PublishCallback("B")
    \/ Deliver("A")

SpecRelay == InitRelay /\ [][NextRelay]_vars

\* ------------------------------------------------------------------ claims
\* a step in which the bus delivered a message: last' holds the listener's
\* instance, subscription object, message and path
Delivered == ndeliver' = ndeliver + 1

\* the packet id a message carries (0 when it has no packet)
pidOf(d) == IF IsDef(d.packet) THEN Val(d.packet).id ELSE 0

\* C1 -- End-to-end delivery: when the bus hands an envelope published by
\* one instance to the open subscription of another instance of the same
\* namespace (and another uid), the receiver calls its local broadcast for
\* that packet exactly once in that delivery; and a delivery of an instance's
\* own envelope back to it calls no local broadcast.
C1_EndToEnd ==
    [][Delivered =>
        LET i == last'.inst
            d == last'.data
        IN  /\ (/\ d.from \in Inst
                /\ uid[d.from] # uid[i]
                /\ nspName[d.from] = nspName[i]
                /\ handles[i][last'.h] = "open")
               => /\ applied'[i][pidOf(d)] = applied[i][pidOf(d)] + 1
                  /\ originated' = originated
            /\ d.from = i => (applied' = applied /\ originated' = originated)]_vars

\* B's room-scoped envelope reached A's open subscription and A applied it
C1_Witness ==
    /\ last.op = "onmessage"
    /\ last.inst = "A"
    /\ last.data.from = "B"
    /\ IsDef(last.data.opts.rooms)
    /\ Len(Val(last.data.opts.rooms)) > 0
    /\ handles["A"][last.h] = "open"
    /\ applied["A"][pidOf(last.data)] = 1

\* C2 -- No self-echo: the instance that broadcast a packet without the
\* remote flag has called its local broadcast for it exactly once, in every
\* state; and a delivery of an envelope whose senderId is the receiver's uid
\* calls no local broadcast.
C2_NoSelfEcho ==
    [][/\ \A i \in Inst : \A p \in Pids :
            originated'[i][p] > 0 => originated'[i][p] + applied'[i][p] = 1
       /\ Delivered =>
            (last'.data.senderId = uid[last'.inst] => applied' = applied)]_vars

\* an instance's own envelope came back to its open subscription
C2_Witness ==
    /\ last.op = "onmessage"
    /\ last.data.from = last.inst
    /\ handles[last.inst][last.h] = "open"
    /\ originated[last.inst][pidOf(last.data)] = 1
    /\ applied[last.inst][pidOf(last.data)] = 0

\* C3 -- No re-publish of remote traffic: a step that runs the callback of a
\* remote broadcast (a delivery, or the wake of a parked remote broadcast)
\* publishes nothing; the outbox grows only in a step that issues or wakes a
\* non-remote broadcast; and every envelope published carries a packet its
\* publisher broadcast without the remote flag.
C3_NoRepublish ==
    [][/\ (Delivered \/ \E o \in waiting \ waiting' : o.remote)
            => (outbox' = outbox /\ pubReqs' = pubReqs)
       /\ outbox' # outbox
            => (nbcast' = nbcast + 1
                \/ \E o \in waiting \ waiting' : o.op = "broadcast" /\ ~o.remote)
       /\ \A k \in 1 .. Len(outbox') :
            originated'[outbox'[k].from][pidOf(outbox'[k])] = 1]_vars

\* a published envelope was accepted by another instance, whose remote
\* broadcast ran its callback at once
C3_Witness ==
    /\ last.op = "onmessage"
    /\ last.path = "accept"
    /\ last.data.from \in Inst
    /\ ~initializing[last.inst]
    /\ applied[last.inst][pidOf(last.data)] = 1

\* C4 -- Namespace isolation: a delivery of an envelope whose packet
\* namespace ('/' when the packet has none) is not the receiving instance's
\* namespace calls no local broadcast and no ack on that instance.
C4_NamespaceIsolation ==
    [][Delivered =>
        LET i == last'.inst
            d == last'.data
            nsp == IF IsDef(Val(d.packet).nsp) THEN Val(Val(d.packet).nsp) ELSE <<"/">>
        IN  (IsDef(d.packet) /\ nsp # nspName[i])
            => (applied' = applied /\ acks' = acks /\ originated' = originated)]_vars

\* a packet without nsp on the channel of /a reached the namespace check of
\* the /a instance's open subscription and was dropped there
C4_Witness ==
    /\ last.op = "onmessage"
    /\ last.inst = "C"
    /\ last.path = "namespace"
    /\ IsDef(last.data.packet)
    /\ ~IsDef(Val(last.data.packet).nsp)

\* C5 -- Room targeting: the envelopes one broadcast published are, for a
\* list of n >= 1 rooms, exactly n, the k-th addressed to
\* prefix#namespace#room_k#, none to the bare channel prefix#namespace#; and
\* for no list or an empty one, exactly one, addressed to the bare channel.
C5_RoomTargeting ==
    \A k \in 1 .. Len(outbox) :
        LET e == outbox[k]
            group == {j \in 1 .. Len(outbox) :
                        pidOf(outbox[j]) = pidOf(e) /\ outbox[j].from = e.from}
            first == CHOOSE j \in group : \A m \in group : j <= m
            bare == prefix \o Hash \o nspName[e.from] \o Hash
            rl == e.opts.rooms
        IN  IF IsDef(rl) /\ Len(Val(rl)) >= 1
            THEN /\ group = first .. (first + Len(Val(rl)) - 1)
                 /\ e.channel = Some(bare \o Val(rl)[k - first + 1] \o Hash)
                 /\ e.channel # Some(bare)
            ELSE /\ group = {k}
                 /\ e.channel = Some(bare)

\* a broadcast to two rooms was published
C5_Witness ==
    \E k \in 1 .. Len(outbox) :
        IsDef(outbox[k].opts.rooms) /\ Len(Val(outbox[k].opts.rooms)) = 2

\* C6 -- Lazy subscription lifecycle: creations and deletions follow the
\* room mapping's changes between empty and not empty and nothing else: no
\* more deletion requests than the mapping has been emptied, no more
\* creation requests than the constructor's one plus one per time the mapping
\* has been filled, and once every callback has fired, one deletion request
\* for each time the mapping was emptied.
C6_LazyLifecycle ==
    \A i \in Inst :
        /\ deletes[i] <= edges[i].empties
        /\ creates[i] <= 1 + edges[i].fills
        /\ (/\ ticks[i] = << >>
            /\ \A o \in waiting : o.inst # i
            /\ \A r \in createReqs \cup delReqs : r.inst # i)
           => deletes[i] = edges[i].empties

\* C7 -- Concurrent-initialization safety: an operation that
\* waitForInitialization suspended is suspended only while a subscription
\* creation is in flight: once the creation has completed (no request of the
\* instance is outstanding) the flag is clear, so that the operation
\* proceeds.
C7_ConcurrentInit ==
    \A o \in waiting :
        (\E r \in createReqs : r.inst = o.inst) \/ ~initializing[o.inst]

\* C8 -- Acknowledge only after applying: a delivery calls ack() exactly when
\* the message passes every filter (subscription object open, channel
\* starting with the instance's channel, senderId other than the instance's
\* uid, packet namespace, '/' by default, the instance's namespace); it then
\* calls the local broadcast first, with the remote flag (nothing is
\* published), and ack second; a rejected message gets neither call.
C8_AckAfterApply ==
    [][Delivered =>
        LET i == last'.inst
            d == last'.data
            passes == /\ handles[i][last'.h] = "open"
                      /\ IsDef(d.channel)
                      /\ startsWith(Val(d.channel), channel(i))
                      /\ d.senderId # uid[i]
                      /\ IsDef(d.packet)
                      /\ (IF IsDef(Val(d.packet).nsp) THEN Val(Val(d.packet).nsp)
                          ELSE <<"/">>) = nspName[i]
        IN  IF passes
            THEN /\ last'.did = <<"broadcast", "ack">>
                 /\ acks' = [acks EXCEPT ![i][pidOf(d)] = @ + 1]
                 /\ applied' = [applied EXCEPT ![i][pidOf(d)] = @ + 1]
                 /\ outbox' = outbox
                 /\ \A o \in waiting' \ waiting : o.remote
            ELSE /\ last'.did = << >>
                 /\ acks' = acks
                 /\ applied' = applied]_vars

\* a message that passed every filter was applied and acknowledged
C8_Witness ==
    /\ last.op = "onmessage"
    /\ last.did = <<"broadcast", "ack">>
    /\ acks[last.inst][pidOf(last.data)] = 1
    /\ applied[last.inst][pidOf(last.data)] = 1

\* C9 -- Idempotent conflict handling: when createTopic answers with a
\* conflict (409), the topic stored is the handle pubsub.topic(name) gives,
\* the one a successful creation answers with, no error is emitted and the
\* request goes on to topic.subscribe; any other error is emitted, no topic
\* is stored and the request ends.
C9_ConflictIdempotent ==
    [][\A r \in createReqs \ createReqs' :
        r.stage = "topic" =>
            IF ~IsDef(last'.err) \/ last'.err = Some(Conflict)
            THEN /\ topics'[r.inst] = Some(pubsubTopic(prefix))
                 /\ errors' = errors
                 /\ [r EXCEPT !.stage = "sub"] \in createReqs'
            ELSE /\ errors' = [errors EXCEPT ![r.inst] = @ \cup {"subscribe"}]
                 /\ topics' = topics
                 /\ \A q \in createReqs' : ~(q.inst = r.inst /\ q.n = r.n)]_vars

\* createTopic answered with a conflict; the topic is stored and no error
\* was emitted
C9_Witness ==
    /\ last.op = "createTopic"
    /\ last.err = Some(Conflict)
    /\ topics[last.inst] = Some(pubsubTopic(prefix))
    /\ "subscribe" \notin errors[last.inst]
    /\ \E r \in createReqs : r.inst = last.inst /\ r.stage = "sub"

\* C10 -- Membership hooks refine the base primitive: once every callback of
\* an instance's addAll, del and delAll calls has fired, this.rooms is what
\* the base Adapter gives for the same calls in issue order.
C10_RefinesBase ==
    \A i \in Inst :
        (/\ ticks[i] = << >>
         /\ \A o \in waiting : o.inst # i
         /\ \A r \in createReqs \cup delReqs : r.inst # i)
        => rooms[i] = refRooms[i]

\* C11 -- Serialized creation: an instance has at most one
\* subscription-creation request outstanding at any time.
C11_SerializedCreation ==
    \A i \in Inst : Cardinality({r \in createReqs : r.inst = i}) <= 1

\* C12 -- The initializing flag is set exactly while a subscription-creation
\* request of the instance is outstanding: set from the request on, clear
\* once it has resolved, with success or with an error.
C12_InitializingCleared ==
    \A i \in Inst : initializing[i] <=> (\E r \in createReqs : r.inst = i)

\* C13 -- Gating on the initializing flag: a step in which an instance sends
\* a publish, a membership-triggered subscription creation or a subscription
\* deletion to the bus starts in a state where its initializing flag is
\* clear, and so does a step that runs a suspended continuation.
C13_Gating ==
    [][\A i \in Inst :
        (\/ pubReqs'[i] > pubReqs[i]
         \/ creates'[i] > creates[i]
         \/ deletes'[i] > deletes[i]
         \/ \E o \in waiting \ waiting' : o.inst = i)
        => ~initializing[i]]_vars

\* C14 -- A subscription-deletion request is sent only from a state where
\* the room mapping has no entry and no deletion request of the instance is
\* outstanding; an instance has at most one deletion in flight.
C14_DeletionGuard ==
    [][\A i \in Inst :
        /\ deletes'[i] > deletes[i]
            => (roomCount(rooms[i]) = 0 /\ \A r \in delReqs : r.inst # i)
        /\ Cardinality({r \in delReqs' : r.inst = i}) <= 1]_vars

\* C15 -- Retry after a failed deletion: whenever del or delAll reaches
\* lazyDeleteSubscription with the room mapping empty, a subscription held
\* and no deletion outstanding (a deletion that failed included), it sends a
\* deletion request.
C15_RetryDeletion ==
    [][\A i \in Inst :
        (/\ ticks[i] # << >>
         /\ ticks'[i] = Tail(ticks[i])
         /\ Head(ticks[i]).op \in {"del", "delAll"}
         /\ roomCount(rooms[i]) = 0
         /\ subscriptions[i] # 0
         /\ \A r \in delReqs : r.inst # i)
        => deletes'[i] = deletes[i] + 1]_vars

\* C16 -- Malformed inbound messages are dropped silently: a delivery of a
\* message without channel or without packet throws nothing, emits no error,
\* calls no local broadcast and no ack.
C16_MalformedDropped ==
    [][Delivered =>
        ((~IsDef(last'.data.channel) \/ ~IsDef(last'.data.packet))
         => (/\ threw' = threw
             /\ errors' = errors
             /\ applied' = applied
             /\ acks' = acks))]_vars

\* C17 -- Duplicate delivery is harmless: when the bus delivers to an
\* instance the very envelope it has just delivered to it and the instance
\* accepted, the second delivery calls no local broadcast.
C17_DuplicateHarmless ==
    [][(/\ Delivered
        /\ last.op = "onmessage"
        /\ last.path = "accept"
        /\ last'.inst = last.inst
        /\ last'.data = last.data)
       => applied' = applied]_vars

\* C18 -- One application per originating broadcast: when another instance's
\* broadcast to several rooms has had one of its envelopes delivered to (and
\* applied by) an instance, the delivery of another envelope of the same
\* broadcast, each envelope delivered once, calls no further local broadcast.
C18_OncePerBroadcast ==
    [][(/\ Delivered
        /\ ndeliver = 1
        /\ last.op = "onmessage"
        /\ last.path = "accept"
        /\ last'.inst = last.inst
        /\ last.data.from \in Inst
        /\ last'.data.from = last.data.from
        /\ pidOf(last'.data) = pidOf(last.data)
        /\ last'.data # last.data)
       => applied' = applied]_vars

\* C19 -- Subscribed whenever there are members: with no error emitted or
\* thrown, no request outstanding and no call pending, an instance whose
\* room mapping is not empty holds a subscription whose object is open.
C19_SubscribedWithMembers ==
    \A i \in Inst :
        (/\ errors[i] = {}
         /\ threw[i] = {}
         /\ ticks[i] = << >>
         /\ \A o \in waiting : o.inst # i
         /\ \A r \in createReqs \cup delReqs : r.inst # i
         /\ roomCount(rooms[i]) > 0)
        => (subscriptions[i] # 0 /\ handles[i][subscriptions[i]] = "open")

\* C20 -- Deletion never targets a missing handle: whenever del or delAll is
\* about to run lazyDeleteSubscription with the room mapping empty and the
\* deleting flag clear, this.subscriptions holds a subscription.
C20_DeleteHasHandle ==
    \A i \in Inst :
        (/\ ticks[i] # << >>
         /\ Head(ticks[i]).op \in {"del", "delAll"}
         /\ roomCount(rooms[i]) = 0
         /\ ~deleting[i])
        => subscriptions[i] # 0

====
